---------------------------- MODULE Spec2Model ----------------------------
(***************************************************************************)
(* A model of src/src/views/screen/canvas-main/ruler/index.ts: the ruler   *)
(* strip (class RulerBuilder) and the draggable guide line (class          *)
(* GuideLine).                                                             *)
(*                                                                         *)
(* Two specifications are given.                                           *)
(*   Spec       RulerBuilder as the source has it.  constructGuide builds  *)
(*              the guide's DOM node, but the two lines that would wrap it *)
(*              in a GuideLine and push it on this.guides are commented    *)
(*              out (lines 344-345), so this.guides stays empty.           *)
(*   GuideSpec  class GuideLine driven through its constructor, the DOM    *)
(*              listeners it registers, document.onmousemove and the       *)
(*              methods its owner calls (destroy, show, hide).             *)
(*                                                                         *)
(* Numbers.  Pointer positions, offsets and sizes are integers (pixels).   *)
(* options.scale is a rational [n, d] with d > 0; the scales used are      *)
(* 1/2, 1, 2 (exact in binary floating point), 0 and -1; options.ratio is  *)
(* a rational too, 2 or 3/2.  A JavaScript                                 *)
(* number that may be NaN or infinite is a record [k, v]: Num(i), PosInf,  *)
(* NegInf, NaN.  A CSS length is <<>> (the empty string) or <<i>> (i px).  *)
(***************************************************************************)
EXTENDS Integers, Sequences, FiniteSets, TLC

VARIABLES
  options,      \* RulerBuilder.options, shared by reference with every GuideLine
  ruler,        \* RulerBuilder.ruler: width, height
  canvas,       \* the canvas element: physical and CSS size, transform
  elCanvases,   \* number of canvas elements appended to the container
  drawn,        \* what the last drawRuler put on the canvas: ticks and labels
  listeners,    \* listeners on the canvas registered by constructRuler
  indicators,   \* live indicator nodes, each with its move/out closures attached
  guideNodes,   \* guide DOM nodes appended to .lines-wrapper by constructGuide
  guides,       \* RulerBuilder.guides: ids of GuideLine objects
  linesWrapper, \* whether el holds a .lines-wrapper
  elInTree,     \* whether the container is in the host tree
  host,         \* layout read from the DOM: el's size, el.parentElement's offsets
  gl,           \* the GuideLine objects and their nodes
  docMove,      \* document.onmousemove: 0 (null) or the id of the guide whose closure it is
  elCursor,     \* el.style.cursor
  last,         \* the handler that ran last and its argument
  err           \* what the handler that ran last threw: "none" or "TypeError"

vars == <<options, ruler, canvas, elCanvases, drawn, listeners, indicators,
          guideNodes, guides, linesWrapper, elInTree, host, gl, docMove,
          elCursor, last, err>>

rulerVars == <<ruler, canvas, elCanvases, drawn, listeners, indicators,
               guideNodes, guides, linesWrapper, elInTree>>

guideVars == <<gl, docMove, elCursor>>

-----------------------------------------------------------------------------
(* Bounds of the model *)

\* guide nodes constructGuide may append
MaxGuideNodes == 1

\* GuideLine objects that may be constructed
MaxGuideLines == 2

\* indicator nodes that may be live at once
MaxIndicators == 2

-----------------------------------------------------------------------------
(* JavaScript numbers and strings *)

Num(i) == [k |-> "num", v |-> i]

PosInf == [k |-> "inf", v |-> 1]

NegInf == [k |-> "inf", v |-> -1]

NaN == [k |-> "nan", v |-> 0]

Min(a, b) == IF a < b THEN a ELSE b

Max(a, b) == IF a > b THEN a ELSE b

Scale(n, d) == [n |-> n, d |-> d]

\* number of thousandths in a unit: getDistanceByCoor keeps 3 decimals
Milli == 1000

\* Math.floor((a / unit) / s) for an integer a counted in 1/unit and a scale s
FloorDiv(a, unit, s) ==
  IF s.n = 0
    THEN IF a > 0 THEN PosInf ELSE IF a < 0 THEN NegInf ELSE NaN
    ELSE IF s.n > 0
      THEN Num((a * s.d) \div (unit * s.n))
      ELSE Num((-(a * s.d)) \div (unit * (-s.n)))

\* Math.round(a * s) for an integer a: the nearest integer, a tie going up
RoundMul(a, s) == Num((2 * a * s.n + s.d) \div (2 * s.d))

\* (num / den).toFixed(3), parsed back, in thousandths: the nearest thousandth,
\* a tie going away from zero (toFixed rounds the absolute value)
ToFixed3(num, den) ==
  LET a == IF num < 0 THEN -num ELSE num
      q == (2 * a * Milli + den) \div (2 * den)
  IN  IF num < 0 THEN -q ELSE q

\* val + 'px'
pixelize(val) == <<val>>

\* parseInt(s) || 0 of a CSS length
ParseIntOr0(s) == IF s = <<>> THEN 0 ELSE s[1]

\* x > -1 on JavaScript numbers
GreaterThanMinusOne(x) == (x.k = "num" /\ x.v > -1) \/ x = PosInf

-----------------------------------------------------------------------------
(* Inputs *)

Half == Scale(1, 2)

One == Scale(1, 1)

Two == Scale(2, 1)

Zero == Scale(0, 1)

MinusOne == Scale(-1, 1)

ValidScales == {Half, One, Two}

Scales == ValidScales \cup {Zero, MinusOne}

\* arguments of setScale
ScaleCalls == {Half, Two, Zero}

\* pointer events: clientX, clientY
Events == {[x |-> 90, y |-> 5], [x |-> 140, y |-> 30]}

\* pointer events anywhere in the document during a drag
\* the pointer-down a guide is made for
GuideEvents == {[x |-> 140, y |-> 30]}

DragEvents == {[x |-> 0, y |-> 0], [x |-> 140, y |-> 30], [x |-> 700, y |-> 400]}

\* arguments of setSize
SizeCalls == {[w |-> 200, h |-> 5, s |-> One], [w |-> 100, h |-> -5, s |-> MinusOne]}

\* sizes of the container
ElSizes == {[w |-> 0, h |-> 0], [w |-> 150, h |-> 100]}

\* the options a caller passes to the constructor, with the layout it finds
Scenarios ==
  { [partial |-> [rulerWidth |-> 200, offset |-> 0],
     el |-> [w |-> 150, h |-> 100], parent |-> [left |-> 0, top |-> 0]],
    [partial |-> [rulerWidth |-> 100, rulerHeight |-> 0],
     el |-> [w |-> 0, h |-> 0], parent |-> [left |-> 0, top |-> 0]],
    [partial |-> [rulerWidth |-> 200, scale |-> Two, enableToolTip |-> FALSE],
     el |-> [w |-> 150, h |-> 100], parent |-> [left |-> 0, top |-> 0]],
    [partial |-> [rulerWidth |-> 100, direction |-> "LR", scale |-> Half,
                  rulerHeight |-> 5, ratio |-> Scale(3, 2)],
     el |-> [w |-> 150, h |-> 100], parent |-> [left |-> 10, top |-> 20]],
    [partial |-> [rulerWidth |-> 100, scale |-> Zero, rulerHeight |-> -5],
     el |-> [w |-> 150, h |-> 100], parent |-> [left |-> 0, top |-> 0]] }

-----------------------------------------------------------------------------
(* RulerBuilder: fields and pure helpers *)

indicatorLineWidth == 1

DefaultOptions ==
  [direction |-> "TB", rulerWidth |-> 1000, rulerHeight |-> 20,
   enableMouseTracking |-> TRUE, enableToolTip |-> TRUE,
   scale |-> One, offset |-> 40, ratio |-> Two]

\* { ...this.options, ...options }
MergeOptions(d, p) == [f \in DOMAIN d |-> IF f \in DOMAIN p THEN p[f] ELSE d[f]]

\* the width and height constructRuler and setSize compute
Geometry(o, h) ==
  [width  |-> IF o.direction = "TB" THEN Max(h.el.w, o.rulerWidth)
                                    ELSE Max(h.el.h, o.rulerWidth),
   height |-> o.rulerHeight]

\* CanvasSize rounding up instead of cutting
CanvasSizeCeil(num, den, default) ==
  LET up == IF num >= 0 THEN (num + den - 1) \div den ELSE -((-num) \div den)
  IN  IF up < 0 THEN default ELSE up

\* the value a canvas keeps when its width or height (an unsigned long) is
\* assigned the number num / den: the number cut to an integer modulo 2^32,
\* or the attribute's default when that is above 2^31 - 1.  The numbers here
\* are below 2^31 in size: a negative one wraps to above 2^31 - 1, the others
\* are kept
CanvasSize(num, den, default) ==
  LET cut == IF num >= 0 THEN num \div den ELSE -((-num) \div den)
  IN  IF cut < 0 THEN default ELSE cut

\* createCanvas(el, width, height, ratio) on the canvas there is, or a new one;
\* ratio is a rational [n, d].  A canvas is 300 by 150 by default
createCanvas(width, height, ratio) ==
  [width |-> CanvasSize(width * ratio.n, ratio.d, 300),
   height |-> CanvasSize(height * ratio.n, ratio.d, 150),
   styleWidth |-> pixelize(width), styleHeight |-> pixelize(height),
   transform |-> ratio]

\* TickAt with the minor tier every 10 pixels instead of every 5
TickAtTens(pos, r, o) ==
  LET delta == pos - o.offset
  IN  IF delta % 50 = 0
        THEN [label |-> FloorDiv(delta, 1, o.scale), tickLen |-> [n |-> 0, d |-> 1]]
        ELSE IF delta % 25 = 0
          THEN [label |-> Num(-1), tickLen |-> [n |-> r.height * 10, d |-> 15]]
          ELSE IF delta % 10 = 0
            THEN [label |-> Num(-1), tickLen |-> [n |-> r.height * 10, d |-> 12]]
            ELSE [label |-> Num(-1), tickLen |-> [n |-> -1, d |-> 1]]

\* the tick of drawPoints at pos: its label and its length.  A length is the
\* rational height / 1.5 or height / 1.2, kept as [n, d]
TickAt(pos, r, o) ==
  LET delta == pos - o.offset
      maxTickLen == [n |-> 0, d |-> 1]
      medTickLen == [n |-> r.height * 10, d |-> 15]
      minTickLen == [n |-> r.height * 10, d |-> 12]
  IN  IF delta % 50 = 0
        THEN [label |-> FloorDiv(delta, 1, o.scale), tickLen |-> maxTickLen]
        ELSE IF delta % 25 = 0
          THEN [label |-> Num(-1), tickLen |-> medTickLen]
          ELSE IF delta % 5 = 0
            THEN [label |-> Num(-1), tickLen |-> minTickLen]
            ELSE [label |-> Num(-1), tickLen |-> [n |-> -1, d |-> 1]]

\* drawPoints: the lines and texts put on the canvas
drawPoints(r, o) ==
  LET visited == {pos \in 0..r.width : pos - o.offset >= 0}
      tick    == [pos \in visited |-> TickAt(pos, r, o)]
      lined   == {pos \in visited : tick[pos].tickLen.n >= 0}
      texted  == {pos \in lined : GreaterThanMinusOne(tick[pos].label)}
  IN  [ticks  |-> {[pos |-> pos, len |-> tick[pos].tickLen] : pos \in lined},
       labels |-> {[pos |-> pos, text |-> tick[pos].label] : pos \in texted}]

\* the geometries and options drawRuler can be called with, from the inputs
DrawKeys ==
  LET built  == {MergeOptions(DefaultOptions, sc.partial) : sc \in Scenarios}
      sizes  == ElSizes \cup {sc.el : sc \in Scenarios}
      wide   == {o.rulerWidth : o \in built} \cup {c.w : c \in SizeCalls}
      extent == {sz.w : sz \in sizes} \cup {sz.h : sz \in sizes}
      high   == {o.rulerHeight : o \in built} \cup {c.h : c \in SizeCalls}
  IN  {Max(e, w) : e \in extent, w \in wide} \X high
        \X {o.offset : o \in built} \X Scales

\* drawPoints on each of them.  The comparison makes TLC build the table
\* once; without it the drawing is computed anew at every use
Drawing ==
  LET table == [k \in DrawKeys |->
                  drawPoints([width |-> k[1], height |-> k[2]],
                             [offset |-> k[3], scale |-> k[4]])]
  IN  IF table = table THEN table ELSE table

\* drawRuler: the background is filled anew, then drawPoints
drawRuler(r, o) == Drawing[<<r.width, r.height, o.offset, o.scale>>]

\* DistanceAt without the indicator's line width
DistanceAtNoLine(m, o, h) ==
  LET parent == IF o.direction = "TB" THEN h.parent.left ELSE h.parent.top
  IN  m - parent * Milli - o.rulerHeight * Milli

\* the distance of getPos for a pointer at m thousandths of a pixel, in thousandths
DistanceAt(m, o, h) ==
  LET parent == IF o.direction = "TB" THEN h.parent.left ELSE h.parent.top
  IN  m - parent * Milli - o.rulerHeight * Milli + indicatorLineWidth * Milli

\* CoorAt rounding to the nearest integer instead of down
CoorAtRounded(dm, o) ==
  FloorDiv(2 * (dm - o.offset * Milli) * o.scale.d + Milli * o.scale.n, 2 * Milli,
           Scale(o.scale.n, 1))

\* the coor of getPos for a distance of dm thousandths
CoorAt(dm, o) == FloorDiv(dm - o.offset * Milli, Milli, o.scale)

getPos(e, o, h) ==
  LET client == IF o.direction = "TB" THEN e.x ELSE e.y
      dm == DistanceAt(client * Milli, o, h)
  IN  [coor |-> CoorAt(dm, o), distance |-> dm \div Milli]

\* getDistanceByCoor without the offset
getDistanceByCoorNoOffset(coor, o) ==
  IF coor.k = "num"
    THEN Num(ToFixed3(coor.v * o.scale.n, o.scale.d))
    ELSE NaN

\* parseFloat((coor * scale + offset).toFixed(3)), in thousandths
getDistanceByCoor(coor, o) ==
  IF coor.k = "num"
    THEN Num(ToFixed3(coor.v * o.scale.n + o.offset * o.scale.d, o.scale.d))
    ELSE IF coor.k = "nan" \/ o.scale.n = 0
      THEN NaN
      ELSE IF o.scale.n > 0 THEN coor ELSE [coor EXCEPT !.v = -coor.v]

-----------------------------------------------------------------------------
(* GuideLine: the object, its node, and its methods as functions of the    *)
(* "world" w = [gl, docMove, elCursor, err] they read and write            *)

\* layout read by startMoving: dragContainer.offsetWidth/Height (cWi, cHe) and
\* guideLine.offsetWidth/Height (eWi, eHe); the guide fits in its container
Layouts == {[cWi |-> 500, cHe |-> 300, eWi |-> 1, eHe |-> 300],
            [cWi |-> 100, cHe |-> 50, eWi |-> 100, eHe |-> 3]}

NoClosure == [diffX |-> 0, diffY |-> 0, cWi |-> 0, cHe |-> 0, eWi |-> 0, eHe |-> 0]

NoTip == [axis |-> "", val |-> Num(0)]

\* the three listeners the constructor registers: prototype methods, unbound
GuideListeners ==
  {[type |-> "mousedown", fn |-> "GuideLine.prototype.mousedown"],
   [type |-> "mouseup", fn |-> "GuideLine.prototype.stopMoving"],
   [type |-> "dblclick", fn |-> "GuideLine.prototype.dblclick"]}

\* the `this` of a listener the DOM calls: the node it was registered on,
\* since the constructor registers the methods without binding them
ListenerThis == "node"

\* the node constructGuide builds for a pointer-down e
GuideNode(e, o, h) ==
  LET pos == getPos(e, o, h)
  IN  [left    |-> IF o.direction = "TB" THEN pixelize(pos.distance) ELSE <<>>,
       top     |-> IF o.direction = "TB" THEN <<>> ELSE pixelize(pos.distance),
       value   |-> pos.coor,
       display |-> "",
       inDom   |-> TRUE]

World == [gl |-> gl, docMove |-> docMove, elCursor |-> elCursor, err |-> "none"]

showToolTip(w, g, o) ==
  IF ~o.enableToolTip THEN w ELSE [w EXCEPT !.gl[g].tooltip = TRUE]

hideToolTip(w, g) == [w EXCEPT !.gl[g].tooltip = FALSE]

\* updateToolTip(x, y): the text of dataset.tip
updateToolTip(x, y, o) ==
  IF y # 0
    THEN [axis |-> "Y", val |-> RoundMul(y - o.rulerHeight - 1 - o.offset, o.scale)]
    ELSE [axis |-> "X", val |-> RoundMul(x - o.rulerHeight - 1 - o.offset, o.scale)]

\* startMoving(e), called on the GuideLine g; lay is the layout it reads
startMoving(w, g, e, lay, o) ==
  LET divTop  == ParseIntOr0(w.gl[g].top)
      divLeft == ParseIntOr0(w.gl[g].left)
      cursor  == IF o.direction = "TB" THEN "ns-resize" ELSE "ew-resize"
      w1 == [w EXCEPT !.gl[g].dragged = TRUE,
                      !.elCursor = cursor,
                      !.gl[g].cursor = cursor,
                      !.gl[g].clo = [diffX |-> e.x - divLeft, diffY |-> e.y - divTop,
                                     cWi |-> lay.cWi, cHe |-> lay.cHe,
                                     eWi |-> lay.eWi, eHe |-> lay.eHe],
                      !.docMove = g]
  IN  showToolTip(w1, g, o)

\* DragPosition without the lower clamp
DragPositionNoFloor(clo, evt) ==
  [aX |-> Min(evt.x - clo.diffX, clo.cWi - clo.eWi),
   aY |-> Min(evt.y - clo.diffY, clo.cHe - clo.eHe)]

\* the position the document.onmousemove closure of a drag computes for evt
DragPosition(clo, evt) ==
  [aX |-> Min(Max(evt.x - clo.diffX, 0), clo.cWi - clo.eWi),
   aY |-> Min(Max(evt.y - clo.diffY, 0), clo.cHe - clo.eHe)]

\* the document.onmousemove closure that startMoving of g installed
onmousemove(w, g, evt, o) ==
  LET p == DragPosition(w.gl[g].clo, evt)
  IN  [w EXCEPT !.gl[g].left = pixelize(p.aX),
                !.gl[g].top = pixelize(p.aY),
                !.gl[g].tip = updateToolTip(p.aX, p.aY, o)]

\* stopMoving leaving document.onmousemove as it is
stopMovingKeepsHandler(w, g, self) ==
  IF self = "node"
    THEN [w EXCEPT !.err = "TypeError"]
    ELSE [hideToolTip([w EXCEPT !.elCursor = "",
                                !.gl[g].cursor = ""], g)
            EXCEPT !.gl[g].dragged = FALSE]

\* stopMoving(), called with this = self: a GuideLine ("guide"), or the node
\* ("node"), which has no el: this.el.style throws a TypeError
stopMoving(w, g, self) ==
  IF self = "node"
    THEN [w EXCEPT !.err = "TypeError"]
    ELSE [hideToolTip([w EXCEPT !.elCursor = "",
                                !.gl[g].cursor = "",
                                !.docMove = 0], g)
            EXCEPT !.gl[g].dragged = FALSE]

\* mousedown(e): e.stopPropagation(), then this.startMoving(e); the node has
\* no startMoving: a TypeError
mousedown(w, g, self, e, lay, o) ==
  IF self = "node"
    THEN [w EXCEPT !.err = "TypeError"]
    ELSE startMoving(w, g, e, lay, o)

\* destroy() handing removeEventListener functions bound anew, which removes
\* nothing (as RulerBuilder.destroy does)
destroyRebound(w, g) ==
  LET w1 == stopMoving(w, g, "guide")
  IN  [w1 EXCEPT !.gl[g].inDom = FALSE,
                 !.gl[g].destroyCalls = Min(@ + 1, 2)]

\* destroy() without its call of stopMoving()
destroyWithoutStop(w, g) ==
  [w EXCEPT !.gl[g].listeners = @ \ GuideListeners,
            !.gl[g].inDom = FALSE,
            !.gl[g].destroyCalls = Min(@ + 1, 2)]

\* destroy(), called on the GuideLine g
destroy(w, g) ==
  LET w1 == stopMoving(w, g, "guide")
  IN  [w1 EXCEPT !.gl[g].listeners = @ \ GuideListeners,
                 !.gl[g].inDom = FALSE,
                 !.gl[g].destroyCalls = Min(@ + 1, 2)]

\* dblclick(e): e.stopPropagation(), then this.destroy(); the node has no
\* destroy: a TypeError
dblclick(w, g, self) ==
  IF self = "node"
    THEN [w EXCEPT !.err = "TypeError"]
    ELSE destroy(w, g)

show(w, g) == [w EXCEPT !.gl[g].display = "block"]

hide(w, g) == [w EXCEPT !.gl[g].display = "none"]

\* new GuideLine(el, guideLine, options, event) on the node constructGuide built
NewGuide(w, e, lay, o, h) ==
  LET node == GuideNode(e, o, h)
      g == Len(w.gl) + 1
      obj == [left |-> node.left, top |-> node.top, value |-> node.value,
              display |-> node.display, inDom |-> node.inDom,
              cursor |-> "", dragged |-> FALSE, tooltip |-> FALSE, tip |-> NoTip,
              listeners |-> GuideListeners, clo |-> NoClosure, destroyCalls |-> 0]
  IN  startMoving([w EXCEPT !.gl = Append(@, obj)], g, e, lay, o)

\* guides.forEach(guide => guide.destroy())
RECURSIVE DestroyEach(_, _)
DestroyEach(w, gs) ==
  IF gs = <<>> THEN w ELSE DestroyEach(destroy(w, Head(gs)), Tail(gs))

\* guides.forEach(guide => guide[func]())
RECURSIVE ToggleEach(_, _, _)
ToggleEach(w, gs, visible) ==
  IF gs = <<>> THEN w
  ELSE ToggleEach(IF visible THEN show(w, Head(gs)) ELSE hide(w, Head(gs)),
                  Tail(gs), visible)

-----------------------------------------------------------------------------
(* The state after new RulerBuilder(container, options) *)

NoEvent == [x |-> 0, y |-> 0]

NoSize == [w |-> 0, h |-> 0, s |-> One]

\* the handler that ran and what it was given
Ran(op, e, size, g) == [op |-> op, e |-> e, size |-> size, g |-> g]

NoText == [k |-> "", v |-> 0]

\* the canvas listeners constructRuler registers: each a function made by
\* bind() at that line
RulerListeners ==
  {[type |-> "mouseenter", fn |-> "constructIndicator.bind(this) at 207"],
   [type |-> "mousedown", fn |-> "constructGuide.bind(this) at 208"]}

\* the functions destroy() hands to removeEventListener: made by bind() anew
DestroyedListeners ==
  {[type |-> "mouseenter", fn |-> "constructIndicator.bind(this) at 386"],
   [type |-> "mousedown", fn |-> "constructGuide.bind(this) at 387"]}

Listens(type) == \E l \in listeners : l.type = type

Init ==
  \E sc \in Scenarios :
    /\ options = MergeOptions(DefaultOptions, sc.partial)
    /\ host = [el |-> sc.el, parent |-> sc.parent]
    /\ ruler = Geometry(options, host)
    /\ canvas = createCanvas(ruler.width, ruler.height, options.ratio)
    /\ elCanvases = 1
    /\ drawn = drawRuler(ruler, options)
    /\ listeners = RulerListeners
    /\ indicators = <<>>
    /\ guideNodes = <<>>
    /\ guides = <<>>
    /\ linesWrapper = FALSE
    /\ elInTree = TRUE
    /\ gl = <<>>
    /\ docMove = 0
    /\ elCursor = ""
    /\ last = Ran("constructor", NoEvent, NoSize, 0)
    /\ err = "none"

\* the GuideLine part of the state becomes what the world w holds
Becomes(w) ==
  /\ gl' = w.gl
  /\ docMove' = w.docMove
  /\ elCursor' = w.elCursor
  /\ err' = w.err

-----------------------------------------------------------------------------
(* RulerBuilder: methods and canvas listeners *)

setSize(c) ==
  /\ options' = [options EXCEPT !.rulerWidth = c.w, !.rulerHeight = c.h, !.scale = c.s]
  /\ ruler' = Geometry(options', host)
  /\ canvas' = createCanvas(ruler'.width, ruler'.height, options'.ratio)
  /\ drawn' = drawRuler(ruler', options')
  /\ last' = Ran("setSize", NoEvent, c, 0)
  /\ err' = "none"
  /\ UNCHANGED <<elCanvases, listeners, indicators, guideNodes, guides,
                 linesWrapper, elInTree, host, guideVars>>

\* setScale recomputing the geometry as setSize does
setScaleResizing(scale) ==
  /\ options' = [options EXCEPT !.scale = scale]
  /\ ruler' = Geometry(options', host)
  /\ canvas' = createCanvas(ruler'.width, ruler'.height, options'.ratio)
  /\ drawn' = drawRuler(ruler', options')
  /\ last' = Ran("setScale", NoEvent, [NoSize EXCEPT !.s = scale], 0)
  /\ err' = "none"
  /\ UNCHANGED <<elCanvases, listeners, indicators, guideNodes, guides,
                 linesWrapper, elInTree, host, guideVars>>

setScale(scale) ==
  /\ options' = [options EXCEPT !.scale = scale]
  /\ drawn' = drawRuler(ruler, options')
  /\ last' = Ran("setScale", NoEvent, [NoSize EXCEPT !.s = scale], 0)
  /\ err' = "none"
  /\ UNCHANGED <<ruler, canvas, elCanvases, listeners, indicators, guideNodes,
                 guides, linesWrapper, elInTree, host, guideVars>>

toggleGuide(visible) ==
  /\ Becomes(ToggleEach(World, guides, visible))
  /\ last' = Ran(IF visible THEN "toggleGuide(true)" ELSE "toggleGuide(false)",
                 NoEvent, NoSize, 0)
  /\ UNCHANGED <<options, rulerVars, host>>

clearGuides ==
  /\ Becomes(DestroyEach(World, guides))
  /\ guides' = <<>>
  /\ last' = Ran("clearGuides", NoEvent, NoSize, 0)
  /\ UNCHANGED <<options, ruler, canvas, elCanvases, drawn, listeners, indicators,
                 guideNodes, linesWrapper, elInTree, host>>

\* RulerBuilder.destroy()
destroyRuler ==
  /\ Becomes(DestroyEach(World, guides))
  /\ guides' = <<>>
  /\ listeners' = listeners \ DestroyedListeners
  /\ elInTree' = FALSE
  /\ last' = Ran("destroy", NoEvent, NoSize, 0)
  /\ UNCHANGED <<options, ruler, canvas, elCanvases, drawn, indicators,
                 guideNodes, linesWrapper, host>>

\* mouseenter on the canvas: constructIndicator
constructIndicator ==
  /\ elInTree /\ Listens("mouseenter")
  /\ Len(indicators) < MaxIndicators
  /\ indicators' = Append(indicators, [left |-> <<>>, text |-> NoText])
  /\ last' = Ran("constructIndicator", NoEvent, NoSize, 0)
  /\ err' = "none"
  /\ UNCHANGED <<options, ruler, canvas, elCanvases, drawn, listeners, guideNodes,
                 guides, linesWrapper, elInTree, host, guideVars>>

\* mousemove on the canvas: the move closure of every live indicator
move(e) ==
  /\ elInTree /\ indicators # <<>>
  /\ LET pos == getPos(e, options, host)
     IN  indicators' = [i \in DOMAIN indicators |->
                          [left |-> pixelize(pos.distance), text |-> pos.coor]]
  /\ last' = Ran("move", e, NoSize, 0)
  /\ err' = "none"
  /\ UNCHANGED <<options, ruler, canvas, elCanvases, drawn, listeners, guideNodes,
                 guides, linesWrapper, elInTree, host, guideVars>>

\* out removing the node this.indicator holds, the one made last, and its
\* listeners only
outRemovesLast ==
  /\ elInTree /\ indicators # <<>>
  /\ indicators' = SubSeq(indicators, 1, Len(indicators) - 1)
  /\ last' = Ran("out", NoEvent, NoSize, 0)
  /\ err' = "none"
  /\ UNCHANGED <<options, ruler, canvas, elCanvases, drawn, listeners, guideNodes,
                 guides, linesWrapper, elInTree, host, guideVars>>

\* mouseout on the canvas: the out closure of every live indicator
out ==
  /\ elInTree /\ indicators # <<>>
  /\ indicators' = <<>>
  /\ last' = Ran("out", NoEvent, NoSize, 0)
  /\ err' = "none"
  /\ UNCHANGED <<options, ruler, canvas, elCanvases, drawn, listeners, guideNodes,
                 guides, linesWrapper, elInTree, host, guideVars>>

\* mousedown on the canvas: constructGuide
constructGuide(e) ==
  /\ elInTree /\ Listens("mousedown")
  /\ Len(guideNodes) < MaxGuideNodes
  /\ guideNodes' = Append(guideNodes, GuideNode(e, options, host))
  /\ linesWrapper' = TRUE
  /\ last' = Ran("constructGuide", e, NoSize, 0)
  /\ err' = "none"
  /\ UNCHANGED <<options, ruler, canvas, elCanvases, drawn, listeners, indicators,
                 guides, elInTree, host, guideVars>>

\* the host lays the container out anew
HostResize(size) ==
  /\ host.el # size
  /\ host' = [host EXCEPT !.el = size]
  /\ last' = Ran("resize", NoEvent, NoSize, 0)
  /\ err' = "none"
  /\ UNCHANGED <<options, rulerVars, guideVars>>

\* The ruler, its guides and its life cycle.  The indicator's handlers are
\* left to HoverSpec: they read options and host and write indicators only,
\* which nothing here reads.
Next ==
  \/ \E c \in SizeCalls : setSize(c)
  \/ \E s \in ScaleCalls : setScale(s)
  \/ \E visible \in BOOLEAN : toggleGuide(visible)
  \/ clearGuides
  \/ destroyRuler
  \/ \E e \in Events : constructGuide(e)
  \/ \E size \in ElSizes : HostResize(size)

Spec == Init /\ [][Next]_vars

\* The indicator under changes of scale
HoverNext ==
  \/ \E s \in ScaleCalls : setScale(s)
  \/ constructIndicator
  \/ \E e \in Events : move(e)
  \/ out
  \/ destroyRuler

HoverSpec == Init /\ [][HoverNext]_vars

-----------------------------------------------------------------------------
(* GuideLine: its constructor, the listeners on its node, the drag, and    *)
(* the methods its owner calls                                             *)

Listening(g, type) == \E l \in gl[g].listeners : l.type = type

\* the pointer can reach the node of g
Reachable(g) == gl[g].inDom /\ gl[g].display # "none"

NewGuideLine(e, lay) ==
  /\ Len(gl) < MaxGuideLines
  /\ Becomes(NewGuide(World, e, lay, options, host))
  /\ last' = Ran("new GuideLine", e, NoSize, Len(gl) + 1)
  /\ UNCHANGED <<options, rulerVars, host>>

\* mousemove anywhere in the document while document.onmousemove is set
DocMouseMove(e) ==
  /\ docMove # 0
  /\ Becomes(onmousemove(World, docMove, e, options))
  /\ last' = Ran("onmousemove", e, NoSize, docMove)
  /\ UNCHANGED <<options, rulerVars, host>>

NodeMouseDown(g, e, lay) ==
  /\ Listening(g, "mousedown") /\ Reachable(g)
  /\ Becomes(mousedown(World, g, ListenerThis, e, lay, options))
  /\ last' = Ran("mousedown", NoEvent, NoSize, g)
  /\ UNCHANGED <<options, rulerVars, host>>

NodeMouseUp(g) ==
  /\ Listening(g, "mouseup") /\ Reachable(g)
  /\ Becomes(stopMoving(World, g, ListenerThis))
  /\ last' = Ran("mouseup", NoEvent, NoSize, g)
  /\ UNCHANGED <<options, rulerVars, host>>

NodeDblClick(g) ==
  /\ Listening(g, "dblclick") /\ Reachable(g)
  /\ Becomes(dblclick(World, g, ListenerThis))
  /\ last' = Ran("dblclick", NoEvent, NoSize, g)
  /\ UNCHANGED <<options, rulerVars, host>>

Destroy(g) ==
  /\ Becomes(destroy(World, g))
  /\ last' = Ran("GuideLine.destroy", NoEvent, NoSize, g)
  /\ UNCHANGED <<options, rulerVars, host>>

GuideNext ==
  \/ \E e \in GuideEvents, lay \in Layouts : NewGuideLine(e, lay)
  \/ \E e \in DragEvents : DocMouseMove(e)
  \/ \E g \in DOMAIN gl, e \in Events, lay \in Layouts : NodeMouseDown(g, e, lay)
  \/ \E g \in DOMAIN gl : NodeMouseUp(g)
  \/ \E g \in DOMAIN gl : NodeDblClick(g)
  \/ \E g \in DOMAIN gl : Destroy(g)

GuideSpec == Init /\ [][GuideNext]_vars

-----------------------------------------------------------------------------
(* Properties *)

\* a configuration the specification calls valid
ValidConfig ==
  options.scale.n > 0 /\ options.offset >= 0 /\ options.rulerHeight >= 0

\* the pointer position of e along the ruler, relative to the container
DevicePos(e) ==
  IF options.direction = "TB" THEN e.x - host.parent.left ELSE e.y - host.parent.top

\* floor(a / options.scale) for a valid scale
FloorByScale(a) == Num((a * options.scale.d) \div options.scale.n)

Dragged == {g \in DOMAIN gl : gl[g].dragged}

\* C1: after every pointer-move of a drag, the dragged guide's position lies in
\* [0, container extent - guide extent] on both axes, the extents being those
\* read when the drag started.
C1_DragStaysInContainer ==
  last.op = "onmousemove" =>
    LET g == gl[last.g]
    IN  /\ Len(g.left) = 1 /\ Len(g.top) = 1
        /\ 0 <= g.left[1] /\ g.left[1] <= g.clo.cWi - g.clo.eWi
        /\ 0 <= g.top[1] /\ g.top[1] <= g.clo.cHe - g.clo.eHe

\* C1 witness: a move whose pointer is past the container's far edge has left
\* the guide at the upper bound, and one before the near edge at 0.
C1_Witness ==
  /\ last.op = "onmousemove"
  /\ LET g == gl[last.g]
     IN  /\ last.e.x - g.clo.diffX > g.clo.cWi - g.clo.eWi
         /\ g.clo.cWi - g.clo.eWi > 0
         /\ g.left = <<g.clo.cWi - g.clo.eWi>>

\* C2: a call of destroy() on a guide raises no error and leaves none of the
\* guide's listeners on its node, the node out of the tree and
\* document.onmousemove not that guide's; on a guide destroyed before, it
\* leaves the guide and its node as they were.
C2_DestroyIdempotent ==
  [][ last'.op = "GuideLine.destroy" =>
        LET g == last'.g
        IN  /\ err' = "none"
            /\ gl'[g].listeners = {}
            /\ ~gl'[g].inDom
            /\ docMove' # g
            /\ gl[g].destroyCalls > 0 =>
                 [gl'[g] EXCEPT !.destroyCalls = 0] = [gl[g] EXCEPT !.destroyCalls = 0]
    ]_vars

\* C2 witness: destroy() has run twice on a guide.
C2_Witness ==
  /\ last.op = "GuideLine.destroy"
  /\ gl[last.g].destroyCalls = 2
  /\ gl[last.g].listeners = {}

\* C3 as stated: the coordinate shown for a pointer position is
\* floor((devicePos - thickness - offset) / scale).
C3_Original ==
  (last.op = "move" /\ ValidConfig) =>
    \A i \in DOMAIN indicators :
      indicators[i].text =
        FloorByScale(DevicePos(last.e) - options.rulerHeight - options.offset)

\* C3 amended: the coordinate shown for a pointer position is
\* floor((devicePos - thickness + 1 - offset) / scale), the 1 being the
\* indicator's line width.
C3_PointerToLogical ==
  (last.op = "move" /\ ValidConfig) =>
    \A i \in DOMAIN indicators :
      indicators[i].text =
        FloorByScale(DevicePos(last.e) - options.rulerHeight + 1 - options.offset)

\* C3 witness: with scale 1, offset 40 and thickness 0 the pointer at 90 shows 51.
C3_Witness ==
  /\ last.op = "move" /\ last.e.x = 90
  /\ options.direction = "TB" /\ host.parent.left = 0
  /\ options.scale = One /\ options.offset = 40 /\ options.rulerHeight = 0
  /\ indicators # <<>> /\ indicators[1].text = Num(51)

\* the last guide node constructGuide appended
NewNode == guideNodes[Len(guideNodes)]

TickPositions == {t.pos : t \in drawn.ticks}

LabelPositions == {t.pos : t \in drawn.labels}

\* C5: with a thickness of 0 or more, a tick is drawn at a position p of
\* [0, width] exactly when delta = p - offset is at least 0 and a multiple of
\* 5, and a label only where delta is a multiple of 50; under a scale above 0
\* the label is there at every such delta and reads floor(delta / scale).
C5_TicksAndLabels ==
  ruler.height >= 0 =>
    /\ TickPositions =
         {p \in 0..ruler.width : p - options.offset >= 0 /\ (p - options.offset) % 5 = 0}
    /\ \A l \in drawn.labels :
         /\ l.pos \in TickPositions
         /\ (l.pos - options.offset) % 50 = 0
         /\ options.scale.n > 0 => l.text = FloorByScale(l.pos - options.offset)
    /\ options.scale.n > 0 =>
         LabelPositions = {p \in TickPositions : (p - options.offset) % 50 = 0}

\* C5 witness: width 200, offset 0, scale 1: ticks at every multiple of 5 of
\* [0, 200], labels at 0, 50, 100, 150, 200 reading the same numbers.
C5_Witness ==
  /\ ruler.width = 200 /\ options.offset = 0 /\ options.scale = One
  /\ ruler.height >= 0
  /\ TickPositions = {5 * i : i \in 0..40}
  /\ drawn.labels = {[pos |-> 50 * i, text |-> Num(50 * i)] : i \in 0..4}

\* C6 as stated: the guide made by a pointer-down at x reports
\* (x - thickness - offset) / scale.
C6_Original ==
  (last.op = "constructGuide" /\ ValidConfig) =>
    /\ NewNode.value.k = "num"
    /\ NewNode.value.v * options.scale.n =
         (DevicePos(last.e) - options.rulerHeight - options.offset) * options.scale.d

\* C6 amended: the guide made by a pointer-down at x stands at
\* x - thickness + 1 (1 being the indicator's line width) and reports
\* floor((x - thickness + 1 - offset) / scale); with offset 40, scale 2 and
\* thickness 20 the pointer-down at 140 reports 40.
C6_GuideReportsCoordinate ==
  (last.op = "constructGuide" /\ ValidConfig) =>
    LET at == DevicePos(last.e) - options.rulerHeight + 1
    IN  /\ NewNode.inDom /\ linesWrapper
        /\ NewNode.left = (IF options.direction = "TB" THEN <<at>> ELSE <<>>)
        /\ NewNode.top = (IF options.direction = "TB" THEN <<>> ELSE <<at>>)
        /\ NewNode.value = FloorByScale(at - options.offset)
        /\ (/\ options.direction = "TB" /\ host.parent.left = 0 /\ last.e.x = 140
            /\ options.offset = 40 /\ options.scale = Two /\ options.rulerHeight = 20)
           => NewNode.value = Num(40)

\* C6 witness: offset 40, scale 2, thickness 20: the pointer-down at 140 has
\* made a guide reporting 40.
C6_Witness ==
  /\ last.op = "constructGuide" /\ last.e.x = 140
  /\ options.direction = "TB" /\ host.parent.left = 0
  /\ options.offset = 40 /\ options.scale = Two /\ options.rulerHeight = 20
  /\ NewNode.value = Num(40) /\ NewNode.left = <<121>>

\* C7: after clearGuides() every guide a pointer-down made is out of the
\* tree, and none is left visible.
C7_ClearRemovesGuides ==
  last.op = "clearGuides" =>
    /\ guides = <<>>
    /\ \A i \in DOMAIN guideNodes : ~guideNodes[i].inDom

\* C8: setScale with a valid scale raises no error and changes options.scale
\* and the drawing only: no guide is made, removed, moved, shown or hidden,
\* and the geometry, the canvas and the other options stay.
C8_SetScaleFrame ==
  [][ (last'.op = "setScale" /\ last'.size.s \in ValidScales) =>
        /\ err' = "none"
        /\ options' = [options EXCEPT !.scale = last'.size.s]
        /\ guideNodes' = guideNodes /\ guides' = guides /\ gl' = gl
        /\ docMove' = docMove /\ linesWrapper' = linesWrapper
        /\ ruler' = ruler /\ canvas' = canvas /\ elCanvases' = elCanvases
        /\ listeners' = listeners /\ indicators' = indicators
        /\ elInTree' = elInTree
        /\ {t.pos : t \in drawn'.ticks} = {t.pos : t \in drawn.ticks}
    ]_vars

\* C8 witness: setScale(0.5) has run on a surface holding a guide, the
\* container having been laid out anew since the geometry was computed.
C8_Witness ==
  /\ last.op = "setScale" /\ options.scale = Half
  /\ guideNodes # <<>>
  /\ ruler # Geometry(options, host)

\* C9: a scale of 0 or less and a negative thickness never get into the
\* options: setScale and setSize given one end in an error.
C9_InvalidConfigRejected ==
  /\ options.scale.n > 0
  /\ options.rulerHeight >= 0
  /\ (last.op \in {"setScale", "setSize"} /\ (last.size.s.n <= 0 \/ last.size.h < 0))
       => err # "none"

\* C10: at most one guide is marked dragged, and it is the guide of the last
\* pointer-down that made or took hold of a guide.
C10_OneDragging ==
  /\ Cardinality(Dragged) <= 1
  /\ \A g \in Dragged : docMove = g

\* C11: destroy() on the guide whose drag closure is document.onmousemove
\* clears document.onmousemove, and no pointer-move after a guide's destroy()
\* changes that guide's position or tooltip text or puts its node back.
C11_DestroyDetachesMove ==
  [][ /\ (last'.op = "GuideLine.destroy" /\ docMove = last'.g) => docMove' = 0
      /\ \A g \in DOMAIN gl :
           (gl[g].destroyCalls > 0 /\ last'.op = "onmousemove") =>
             /\ last'.g # g
             /\ gl'[g].left = gl[g].left /\ gl'[g].top = gl[g].top
             /\ gl'[g].tip = gl[g].tip
             /\ ~gl'[g].inDom
    ]_vars

\* C11 witness: the first guide was destroyed while it was being dragged, and
\* a pointer-move delivered since then (to the drag of the second guide) has
\* run: the first guide is where its own drag left it.
C11_Witness ==
  /\ last.op = "onmousemove" /\ last.g = 2
  /\ gl[1].destroyCalls > 0 /\ ~gl[1].inDom /\ ~gl[1].dragged
  /\ gl[1].clo # NoClosure
  /\ gl[1].left # gl[2].left

\* C12: after RulerBuilder.destroy() the guides are cleared, the container is
\* out of the host tree, and no listener is left on the canvas.
C12_DestroyDetachesSurface ==
  last.op = "destroy" =>
    /\ guides = <<>>
    /\ ~elInTree
    /\ listeners = {}

\* the container's extent along the ruler
ContainerExtent == IF options.direction = "TB" THEN host.el.w ELSE host.el.h

\* C13: in every state the ruler is at least as wide as the container's extent
\* and as the configured length, and as wide as the configured length when
\* the container's extent is zero or less.
C13_GeometryCoversContainer ==
  /\ ruler.width >= Max(ContainerExtent, options.rulerWidth)
  /\ ContainerExtent <= 0 => ruler.width = options.rulerWidth

\* C14: after a pointer-up on a guide no error was raised, the guide is not
\* marked dragged, and document.onmousemove is not its drag closure.
C14_PointerUpEndsDrag ==
  last.op = "mouseup" =>
    /\ err = "none"
    /\ ~gl[last.g].dragged
    /\ docMove # last.g

\* C15: destroy() on a guide whose drag closure is not document.onmousemove
\* leaves the drag of the guide that holds it as it is: document.onmousemove,
\* the container's cursor and every other guide stay.
C15_DetachIsGuarded ==
  [][ (last'.op = "GuideLine.destroy" /\ docMove # 0 /\ docMove # last'.g) =>
        /\ docMove' = docMove
        /\ elCursor' = elCursor
        /\ \A g \in DOMAIN gl : g # last'.g => gl'[g] = gl[g]
    ]_vars

\* C16: in every state at most one indicator node is live.
C16_OneIndicator == Len(indicators) <= 1

\* C17: a pointer-leave removes every indicator node with its move and leave
\* listeners; a pointer-move keeps the number of nodes and writes the position
\* and the coordinate of the pointer into the nodes there are; and while no
\* indicator is live nothing but a pointer-enter makes one.
C17_LeaveDetaches ==
  [][ /\ last'.op = "out" => indicators' = <<>>
      /\ last'.op = "move" =>
           /\ Len(indicators') = Len(indicators)
           /\ \A i \in DOMAIN indicators' :
                /\ indicators'[i].left = pixelize(getPos(last'.e, options, host).distance)
                /\ indicators'[i].text = getPos(last'.e, options, host).coor
      /\ (indicators = <<>> /\ last'.op # "constructIndicator") => indicators' = <<>>
      /\ last'.op = "constructIndicator" => Len(indicators') = Len(indicators) + 1
    ]_vars

\* C17 witness: the pointer has left the strip while an indicator was live:
\* no node and no listener of an indicator is left.
C17_Witness ==
  /\ last.op = "out"
  /\ indicators = <<>>
  /\ elInTree

\* C18: after a pointer-move of a drag with the tooltip enabled and a valid
\* configuration, the tooltip of the dragged guide reads
\* floor((position - thickness - offset) / scale), position being the guide's
\* new place along the ruler.
C18_TooltipShowsCoordinate ==
  (last.op = "onmousemove" /\ options.enableToolTip /\ ValidConfig) =>
    LET g == gl[last.g]
        position == IF options.direction = "TB" THEN g.left[1] ELSE g.top[1]
    IN  g.tip.val = FloorByScale(position - options.rulerHeight - options.offset)

\* C19: a guide that destroy() has run on stays destroyed: whatever happens
\* next, it is not marked dragged, document.onmousemove is not its closure,
\* its node is out of the tree with none of its listeners, its position is
\* what it was, and the guides made later are other guides.
C19_DestroyedIsTerminal ==
  [][ /\ Len(gl') >= Len(gl)
      /\ \A g \in DOMAIN gl :
           gl[g].destroyCalls > 0 =>
             /\ gl'[g].destroyCalls > 0
             /\ ~gl'[g].dragged /\ docMove' # g
             /\ ~gl'[g].inDom /\ gl'[g].listeners = {}
             /\ gl'[g].left = gl[g].left /\ gl'[g].top = gl[g].top
             /\ gl'[g].display = gl[g].display
    ]_vars

\* C19 witness: after the first guide was destroyed, and destroyed again, a
\* pointer-down has made a second guide, which is the one dragged.
C19_Witness ==
  /\ last.op = "new GuideLine" /\ last.g = 2
  /\ gl[1].destroyCalls = 2 /\ ~gl[1].inDom /\ ~gl[1].dragged
  /\ gl[2].dragged /\ gl[2].inDom /\ docMove = 2

\* C20 as stated: under a valid configuration, in every state (after
\* construction and after every setSize) the canvas is ruler.width * ratio by
\* ruler.height * ratio physical pixels, and the container holds one canvas.
C20_Original ==
  ValidConfig =>
    /\ canvas.width * options.ratio.d = ruler.width * options.ratio.n
    /\ canvas.height * options.ratio.d = ruler.height * options.ratio.n
    /\ elCanvases = 1

\* a canvas size c is the product p / d cut to an integer, or the default
\* when the product is -1 or less
IsCutProduct(c, p, d, default) ==
  IF p <= -d THEN c = default ELSE c * d <= p /\ p < (c + 1) * d

\* C20 amended: in every state (after construction and after every setSize)
\* the canvas's physical width and height are ruler.width * ratio and
\* ruler.height * ratio cut to integers, and the canvas's defaults (300, 150)
\* where the product is negative; its CSS size is the geometry, its transform
\* the ratio, and the container holds the one canvas.
C20_CanvasIsCutProduct ==
  /\ IsCutProduct(canvas.width, ruler.width * options.ratio.n, options.ratio.d, 300)
  /\ IsCutProduct(canvas.height, ruler.height * options.ratio.n, options.ratio.d, 150)
  /\ canvas.styleWidth = <<ruler.width>> /\ canvas.styleHeight = <<ruler.height>>
  /\ canvas.transform = options.ratio
  /\ elCanvases = 1

\* C20 witness: setSize(200, 5, 1) has run under a ratio of 3/2: the canvas
\* is 7 pixels high for a ruler 5 high.
C20_Witness ==
  /\ last.op = "setSize" /\ last.size.h = 5
  /\ options.ratio = Scale(3, 2)
  /\ ruler.height = 5 /\ canvas.height = 7
  /\ canvas.width * 2 = ruler.width * 3
  /\ elCanvases = 1

=============================================================================
